---- MODULE Spec2Model ----
(***************************************************************************)
(* byte_order: NumberReader / NumberWriter over an abstract byte source or *)
(* sink, with the byte order fixed at construction.                        *)
(*                                                                         *)
(* Numbers are TLC integers, which are 32 bits wide, so a value of the     *)
(* model has at most ValueBits bits.  A behaviour fixes the width of a     *)
(* byte (byte_bits) in its first state: with 8-bit bytes the 8- and 16-bit *)
(* kinds are exact; with narrower bytes the wider kinds keep their number  *)
(* of bytes (size_of) and every byte is narrowed.  A behaviour holds the    *)
(* one-byte kinds and the kinds that fill a modelled number, so streams    *)
(* mix one-byte values with wider ones.                                    *)
(***************************************************************************)
EXTENDS Integers, Sequences, FiniteSets, TLC

VARIABLES target, byte_bits, pc, returned,
          writer, w_made, w_last, w_calls, w_sent, w_errs, w_raw,
          reader, r_made, r_last, r_calls, r_sum, r_errs, r_raw

\* the build target and the width of a byte
env == <<target, byte_bits>>

\* the writer and the record of what was done with it
wvars == <<writer, w_made, w_last, w_calls, w_sent, w_errs, w_raw>>

\* the reader and the record of what was done with it
rvars == <<reader, r_made, r_last, r_calls, r_sum, r_errs, r_raw>>

vars == <<env, pc, returned, wvars, rvars>>

(* ------------------------------ bounds --------------------------------- *)

\* most bits a modelled number has (TLC integers are 32-bit)
ValueBits == 16

\* calls a caller makes on one wrapper in a sequencing run
MaxCalls == 2

\* longest sample source, in runs of ValueBits bits
MaxWords == 2

Min(a, b) == IF a < b THEN a ELSE b

(* ------------------------------ ByteOrder ------------------------------ *)

ByteOrder == {"BE", "LE"}

\* ByteOrder::NE, resolved from the build target (NE_exchanged: with the two
\* cfg branches exchanged)
NE_exchanged == IF target = "big" THEN "LE" ELSE "BE"

NE == IF target = "big" THEN "BE" ELSE "LE"

(* --------------------------- numeric kinds ----------------------------- *)

UnsignedKinds == {"u8", "u16", "u32", "u64", "u128"}
SignedKinds == {"i8", "i16", "i32", "i64", "i128"}
FloatKinds == {"f32", "f64"}
AllKinds == UnsignedKinds \cup SignedKinds \cup FloatKinds

\* mem::size_of::<T>()
size_of(k) ==
    CASE k \in {"u8", "i8"} -> 1
      [] k \in {"u16", "i16"} -> 2
      [] k \in {"u32", "i32", "f32"} -> 4
      [] k \in {"u64", "i64", "f64"} -> 8
      [] k \in {"u128", "i128"} -> 16

\* the unsigned kind of the same width (the kind of a float's bit pattern)
bits_kind(k) ==
    CASE k \in {"u8", "i8"} -> "u8"
      [] k \in {"u16", "i16"} -> "u16"
      [] k \in {"u32", "i32", "f32"} -> "u32"
      [] k \in {"u64", "i64", "f64"} -> "u64"
      [] k \in {"u128", "i128"} -> "u128"

\* values of one byte (u8): 0 .. Radix - 1
Radix == 2 ^ byte_bits

Byte == 0 .. (Radix - 1)

\* number of bit patterns of a kind: 2^N
Modulus(k) == Radix ^ size_of(k)

\* the kinds a behaviour with this byte width holds: the one-byte kinds and
\* the kinds whose values take all the bits a modelled number has
Kinds ==
    {k \in AllKinds :
        \/ size_of(k) = 1
        \/ size_of(k) * byte_bits <= ValueBits /\ 2 * size_of(k) * byte_bits > ValueBits}

(* ----------------- std: integer <-> byte-array conversions ------------- *)

\* uN::to_le_bytes over s bytes: least significant byte first
RECURSIVE le_digits(_, _)
le_digits(n, s) ==
    IF s = 0 THEN <<>> ELSE <<n % Radix>> \o le_digits(n \div Radix, s - 1)

\* uN::to_be_bytes over s bytes: most significant byte first
RECURSIVE be_digits(_, _)
be_digits(n, s) ==
    IF s = 0 THEN <<>> ELSE be_digits(n \div Radix, s - 1) \o <<n % Radix>>

to_le_bytes(k, n) == le_digits(n, size_of(k))

to_be_bytes(k, n) == be_digits(n, size_of(k))

\* uN::from_le_bytes
RECURSIVE from_le_bytes(_)
from_le_bytes(buf) ==
    IF buf = <<>> THEN 0 ELSE Head(buf) + Radix * from_le_bytes(Tail(buf))

\* uN::from_be_bytes
RECURSIVE from_be_bytes(_)
from_be_bytes(buf) ==
    IF buf = <<>> THEN 0
    ELSE from_be_bytes(SubSeq(buf, 1, Len(buf) - 1)) * Radix + buf[Len(buf)]

\* `u as iN`: the two's-complement reading of an N-bit pattern
as_signed(k, u) == IF 2 * u >= Modulus(k) THEN u - Modulus(k) ELSE u

\* `s as uN`: the N-bit pattern of a signed value
as_unsigned(k, s) == s % Modulus(k)

\* a float is held as its IEEE-754 bit pattern: fN::to_bits / fN::from_bits
to_bits(f) == f.bits

from_bits(p) == [bits |-> p]

(* ------------------------- io::Result values --------------------------- *)

Ok(v) == [ok |-> TRUE, val |-> v]

Err(e) == [ok |-> FALSE, err |-> e]

(* -------------------- the wrapped byte source (Read) ------------------- *)

\* A source holds `data`, has handed over the first `pos` bytes, and hands
\* over at most `chunk` bytes per read call (0: no limit per call).  When
\* `fault` names an error kind, the read call that comes after `after`
\* further calls reports that error once instead of handing over bytes.
\* `exact` names the read_exact the source has: "default" is the provided
\* method of Read (a loop over read).
Source(data, chunk) ==
    [data |-> data, pos |-> 0, chunk |-> chunk, fault |-> "none", after |-> 0,
     exact |-> "default"]

\* io::Cursor::new(data): a source with a read_exact of its own, which looks
\* at the length first.  When fewer bytes are left than asked for it fails
\* and, depending on the standard library the crate is built with, leaves
\* the position where it is ("in_place") or puts it at the end ("to_end");
\* Read::read_exact leaves open how many bytes a failed call has read.
CursorKinds == {"in_place", "to_end"}

Cursor(data, exact) == [Source(data, 0) EXCEPT !.exact = exact]

\* the same source or sink, with one error of kind e due after n calls
Faulty(inner, n, e) == [inner EXCEPT !.fault = e, !.after = n]

\* Read::read with a buffer of n bytes: the number of bytes handed over
read_len(src, n) ==
    LET left == Len(src.data) - src.pos
        want == IF src.chunk = 0 THEN n ELSE Min(n, src.chunk)
    IN  Min(want, left)

\* Read::read on the source with a buffer of n bytes: the error that is due,
\* or the bytes put at the front of the buffer (their number is the count
\* returned)
Read_read(src, n) ==
    IF src.fault # "none" /\ src.after = 0
    THEN [inner |-> [src EXCEPT !.fault = "none"], ret |-> Err(src.fault)]
    ELSE LET k == read_len(src, n)
         IN  [inner |-> [src EXCEPT !.pos = @ + k,
                                    !.after = IF @ > 0 THEN @ - 1 ELSE 0],
              ret |-> Ok(SubSeq(src.data, src.pos + 1, src.pos + k))]

\* Read::read_exact (the default method): read until the buffer is full;
\* a read of 0 bytes before that is ErrorKind::UnexpectedEof, an error of
\* kind Interrupted is ignored and the read repeated, any other error ends
\* the call
RECURSIVE read_exact_loop(_, _, _)
read_exact_loop(src, need, got) ==
    IF need = 0 THEN [inner |-> src, ok |-> TRUE, buf |-> got]
    ELSE LET r == Read_read(src, need)
         IN  IF ~r.ret.ok
             THEN IF r.ret.err = "Interrupted"
                  THEN read_exact_loop(r.inner, need, got)
                  ELSE [inner |-> r.inner, ok |-> FALSE, err |-> r.ret.err, buf |-> got]
             ELSE IF Len(r.ret.val) = 0
             THEN [inner |-> r.inner, ok |-> FALSE, err |-> "UnexpectedEof", buf |-> got]
             ELSE read_exact_loop(r.inner, need - Len(r.ret.val), got \o r.ret.val)

\* Cursor's read_exact: all n bytes at once, or UnexpectedEof
cursor_read_exact(src, n) ==
    IF n <= Len(src.data) - src.pos
    THEN [inner |-> [src EXCEPT !.pos = @ + n], ok |-> TRUE,
          buf |-> SubSeq(src.data, src.pos + 1, src.pos + n)]
    ELSE [inner |-> IF src.exact = "to_end" THEN [src EXCEPT !.pos = Len(src.data)]
                    ELSE src,
          ok |-> FALSE, err |-> "UnexpectedEof", buf |-> <<>>]

\* self.inner.read_exact(&mut buf): the read_exact of the wrapped source
read_exact(src, n) ==
    IF src.exact = "default" THEN read_exact_loop(src, n, <<>>)
    ELSE cursor_read_exact(src, n)

(* --------------------- the wrapped byte sink (Write) ------------------- *)

\* A sink holds the bytes it accepted (`data`), accepts at most `chunk`
\* bytes per write call (0: no limit per call) and, when `limited`, at most
\* `room` further bytes in all (a Vec is not limited, a slice is).  `fault`
\* and `after` are as for a source.
Sink(limited, room, chunk) ==
    [data |-> <<>>, limited |-> limited, room |-> room, chunk |-> chunk,
     fault |-> "none", after |-> 0]

\* Write::write with n bytes offered: the number of bytes accepted
write_len(snk, n) ==
    LET want == IF snk.chunk = 0 THEN n ELSE Min(n, snk.chunk)
    IN  IF snk.limited THEN Min(want, snk.room) ELSE want

\* Write::write on the sink: the error that is due, or the number of bytes
\* accepted from the front of `bytes`
Write_write(snk, bytes) ==
    IF snk.fault # "none" /\ snk.after = 0
    THEN [inner |-> [snk EXCEPT !.fault = "none"], ret |-> Err(snk.fault)]
    ELSE LET k == write_len(snk, Len(bytes))
         IN  [inner |-> [snk EXCEPT !.data = @ \o SubSeq(bytes, 1, k),
                                    !.room = IF snk.limited THEN @ - k ELSE @,
                                    !.after = IF @ > 0 THEN @ - 1 ELSE 0],
              ret |-> Ok(k)]

\* Write::write_all (the default method): write until nothing is left; a
\* write that accepts 0 bytes before that is ErrorKind::WriteZero, an error
\* of kind Interrupted is ignored and the write repeated, any other error
\* ends the call
RECURSIVE write_all(_, _)
write_all(snk, bytes) ==
    IF bytes = <<>> THEN [inner |-> snk, ret |-> Ok("unit")]
    ELSE LET r == Write_write(snk, bytes)
         IN  IF ~r.ret.ok
             THEN IF r.ret.err = "Interrupted"
                  THEN write_all(r.inner, bytes)
                  ELSE [inner |-> r.inner, ret |-> r.ret]
             ELSE IF r.ret.val = 0
             THEN [inner |-> r.inner, ret |-> Err("WriteZero")]
             ELSE write_all(r.inner, SubSeq(bytes, r.ret.val + 1, Len(bytes)))

(* ------------------------------ NumberWriter --------------------------- *)

\* NumberWriter { inner, order }
NumberWriter_with_order(order, w) == [inner |-> w, order |-> order]

NumberWriter_new(w) == NumberWriter_with_order(NE, w)

\* the operations NumberWriter has: those of its one impl block (there is no
\* `impl Write for NumberWriter`)
NumberWriter_methods ==
    {"new", "with_order", "into_inner", "get_ref", "get_mut"}
    \cup {"write_u8", "write_i8", "write_u16", "write_i16", "write_u32", "write_i32",
          "write_u64", "write_i64", "write_u128", "write_i128", "write_f32", "write_f64"}

\* NumberWriter::get_ref: a shared reference to the wrapped sink
NumberWriter_get_ref(self) == self.inner

\* NumberWriter::get_mut: a mutable reference to the wrapped sink; `used`
\* is the sink as the caller leaves it through that reference
NumberWriter_get_mut(self, used) == [self EXCEPT !.inner = used]

\* NumberWriter::into_inner: the wrapped sink, the writer is consumed
NumberWriter_into_inner(self) == self.inner

\* the outcome of a writer method: the writer afterwards and what it returned
written(self, out) == [self |-> [self EXCEPT !.inner = out.inner], ret |-> out.ret]

write_u8(self, n) == written(self, write_all(self.inner, <<n>>))

write_i8(self, n) == write_u8(self, as_unsigned("u8", n))

\* write_u16 that writes to a copy of the sink: the writer's own is untouched
write_u16_to_copy(self, n) ==
    LET bytes == CASE self.order = "BE" -> to_be_bytes("u16", n)
                   [] self.order = "LE" -> to_le_bytes("u16", n)
    IN  [self |-> self, ret |-> write_all(self.inner, bytes).ret]

write_u16(self, n) ==
    LET bytes == CASE self.order = "BE" -> to_be_bytes("u16", n)
                   [] self.order = "LE" -> to_le_bytes("u16", n)
    IN  written(self, write_all(self.inner, bytes))

write_i16(self, n) == write_u16(self, as_unsigned("u16", n))

\* write_u32 that drops the result of write_all
write_u32_unchecked(self, n) ==
    LET bytes == CASE self.order = "BE" -> to_be_bytes("u32", n)
                   [] self.order = "LE" -> to_le_bytes("u32", n)
    IN  [written(self, write_all(self.inner, bytes)) EXCEPT !.ret = Ok("unit")]

\* write_u32 that converts big-endian whatever the order
write_u32_always_be(self, n) ==
    written(self, write_all(self.inner, to_be_bytes("u32", n)))

write_u32(self, n) ==
    LET bytes == CASE self.order = "BE" -> to_be_bytes("u32", n)
                   [] self.order = "LE" -> to_le_bytes("u32", n)
    IN  written(self, write_all(self.inner, bytes))

\* write_i32 that writes the magnitude of a negative value
write_i32_magnitude(self, n) == write_u32(self, IF n < 0 THEN -n ELSE n)

\* write_i32 that writes 0 for a negative value
write_i32_saturating(self, n) == write_u32(self, IF n < 0 THEN 0 ELSE n)

write_i32(self, n) == write_u32(self, as_unsigned("u32", n))

\* write_u64 with the two conversions exchanged
write_u64_exchanged(self, n) ==
    LET bytes == CASE self.order = "BE" -> to_le_bytes("u64", n)
                   [] self.order = "LE" -> to_be_bytes("u64", n)
    IN  written(self, write_all(self.inner, bytes))

write_u64(self, n) ==
    LET bytes == CASE self.order = "BE" -> to_be_bytes("u64", n)
                   [] self.order = "LE" -> to_le_bytes("u64", n)
    IN  written(self, write_all(self.inner, bytes))

write_i64(self, n) == write_u64(self, as_unsigned("u64", n))

write_u128(self, n) ==
    LET bytes == CASE self.order = "BE" -> to_be_bytes("u128", n)
                   [] self.order = "LE" -> to_le_bytes("u128", n)
    IN  written(self, write_all(self.inner, bytes))

write_i128(self, n) == write_u128(self, as_unsigned("u128", n))

write_f32(self, n) ==
    LET bytes == CASE self.order = "BE" -> to_be_bytes("u32", to_bits(n))
                   [] self.order = "LE" -> to_le_bytes("u32", to_bits(n))
    IN  written(self, write_all(self.inner, bytes))

write_f64(self, n) ==
    LET bytes == CASE self.order = "BE" -> to_be_bytes("u64", to_bits(n))
                   [] self.order = "LE" -> to_le_bytes("u64", to_bits(n))
    IN  written(self, write_all(self.inner, bytes))

(* ------------------------------ NumberReader --------------------------- *)

\* NumberReader { inner, order }
NumberReader_with_order(order, src) == [inner |-> src, order |-> order]

\* new that always takes network order
NumberReader_new_big(src) == NumberReader_with_order("BE", src)

NumberReader_new(src) == NumberReader_with_order(NE, src)

\* the operations NumberReader has: those of its impl block and the `read`
\* of `impl Read for NumberReader`
NumberReader_methods ==
    {"new", "with_order", "into_inner", "get_ref", "get_mut", "read"}
    \cup {"read_u8", "read_i8", "read_u16", "read_i16", "read_u32", "read_i32",
          "read_u64", "read_i64", "read_u128", "read_i128", "read_f32", "read_f64"}

\* NumberReader::get_ref: a shared reference to the wrapped source
NumberReader_get_ref(self) == self.inner

\* get_mut that hands the source to a freshly made reader
NumberReader_get_mut_rebuilt(self, used) == NumberReader_new(used)

\* NumberReader::get_mut: a mutable reference to the wrapped source; `used`
\* is the source as the caller leaves it through that reference
NumberReader_get_mut(self, used) == [self EXCEPT !.inner = used]

\* NumberReader::into_inner: the wrapped source, the reader is consumed
NumberReader_into_inner(self) == self.inner

\* read that insists on filling the whole buffer
NumberReader_read_filling(self, n) ==
    LET r == read_exact(self.inner, n)
    IN  [self |-> [self EXCEPT !.inner = r.inner],
         ret |-> IF r.ok THEN Ok(r.buf) ELSE Err(r.err)]

\* impl Read for NumberReader: read is the read of the wrapped source
NumberReader_read(self, n) ==
    LET r == Read_read(self.inner, n)
    IN  [self |-> [self EXCEPT !.inner = r.inner], ret |-> r.ret]

\* `?` on a failed read_exact: the error is returned, the source keeps what
\* it consumed; otherwise the value decoded from the filled buffer
read_u8(self) ==
    LET r == read_exact(self.inner, size_of("u8"))
    IN  [self |-> [self EXCEPT !.inner = r.inner],
         ret |-> IF r.ok THEN Ok(r.buf[1]) ELSE Err(r.err)]

\* `?` then `as iN` on the value of the unsigned read
read_i8(self) ==
    LET r == read_u8(self)
    IN  IF r.ret.ok THEN [r EXCEPT !.ret = Ok(as_signed("i8", r.ret.val))] ELSE r

\* read_u16 with a buffer of four bytes, of which it converts the first two
read_u16_wide_buffer(self) ==
    LET r == read_exact(self.inner, size_of("u32"))
        buf == SubSeq(r.buf, 1, size_of("u16"))
    IN  [self |-> [self EXCEPT !.inner = r.inner],
         ret |-> IF ~r.ok THEN Err(r.err)
                 ELSE Ok(IF self.order = "LE" THEN from_le_bytes(buf)
                         ELSE from_be_bytes(buf))]

\* read_u16 with the two conversions exchanged
read_u16_exchanged(self) ==
    LET r == read_exact(self.inner, size_of("u16"))
    IN  [self |-> [self EXCEPT !.inner = r.inner],
         ret |-> IF ~r.ok THEN Err(r.err)
                 ELSE Ok(IF self.order = "LE" THEN from_be_bytes(r.buf)
                         ELSE from_le_bytes(r.buf))]

\* read_u16 that gives up its source when a read fails
read_u16_poisoned(self) ==
    LET r == read_exact(self.inner, size_of("u16"))
    IN  [self |-> [self EXCEPT !.inner = IF r.ok THEN r.inner
                                         ELSE [r.inner EXCEPT !.pos = Len(r.inner.data)]],
         ret |-> IF ~r.ok THEN Err(r.err)
                 ELSE Ok(IF self.order = "LE" THEN from_le_bytes(r.buf)
                         ELSE from_be_bytes(r.buf))]

read_u16(self) ==
    LET r == read_exact(self.inner, size_of("u16"))
    IN  [self |-> [self EXCEPT !.inner = r.inner],
         ret |-> IF ~r.ok THEN Err(r.err)
                 ELSE Ok(IF self.order = "LE" THEN from_le_bytes(r.buf)
                         ELSE from_be_bytes(r.buf))]

read_i16(self) ==
    LET r == read_u16(self)
    IN  IF r.ret.ok THEN [r EXCEPT !.ret = Ok(as_signed("i16", r.ret.val))] ELSE r

\* read_u32 that takes a short read for zeros: the missing bytes are padded
read_u32_padding(self) ==
    LET r == read_exact(self.inner, size_of("u32"))
        buf == r.buf \o [i \in 1 .. (size_of("u32") - Len(r.buf)) |-> 0]
    IN  [self |-> [self EXCEPT !.inner = r.inner],
         ret |-> Ok(IF self.order = "LE" THEN from_le_bytes(buf)
                    ELSE from_be_bytes(buf))]

\* read_u32 that returns 0 when the source fails
read_u32_defaulting(self) ==
    LET r == read_exact(self.inner, size_of("u32"))
    IN  [self |-> [self EXCEPT !.inner = r.inner],
         ret |-> IF ~r.ok THEN Ok(0)
                 ELSE Ok(IF self.order = "LE" THEN from_le_bytes(r.buf)
                         ELSE from_be_bytes(r.buf))]

read_u32(self) ==
    LET r == read_exact(self.inner, size_of("u32"))
    IN  [self |-> [self EXCEPT !.inner = r.inner],
         ret |-> IF ~r.ok THEN Err(r.err)
                 ELSE Ok(IF self.order = "LE" THEN from_le_bytes(r.buf)
                         ELSE from_be_bytes(r.buf))]

read_i32(self) ==
    LET r == read_u32(self)
    IN  IF r.ret.ok THEN [r EXCEPT !.ret = Ok(as_signed("i32", r.ret.val))] ELSE r

\* read_u64 that converts from network order whatever the reader's order
read_u64_network(self) ==
    LET r == read_exact(self.inner, size_of("u64"))
    IN  [self |-> [self EXCEPT !.inner = r.inner],
         ret |-> IF ~r.ok THEN Err(r.err) ELSE Ok(from_be_bytes(r.buf))]

\* read_u64 that puts the source back where it was when the read fails
read_u64_rewinding(self) ==
    LET r == read_exact(self.inner, size_of("u64"))
    IN  [self |-> [self EXCEPT !.inner = IF r.ok THEN r.inner ELSE self.inner],
         ret |-> IF ~r.ok THEN Err(r.err)
                 ELSE Ok(IF self.order = "LE" THEN from_le_bytes(r.buf)
                         ELSE from_be_bytes(r.buf))]

read_u64(self) ==
    LET r == read_exact(self.inner, size_of("u64"))
    IN  [self |-> [self EXCEPT !.inner = r.inner],
         ret |-> IF ~r.ok THEN Err(r.err)
                 ELSE Ok(IF self.order = "LE" THEN from_le_bytes(r.buf)
                         ELSE from_be_bytes(r.buf))]

read_i64(self) ==
    LET r == read_u64(self)
    IN  IF r.ret.ok THEN [r EXCEPT !.ret = Ok(as_signed("i64", r.ret.val))] ELSE r

\* read_u128 with the two conversions exchanged
read_u128_exchanged(self) ==
    LET r == read_exact(self.inner, size_of("u128"))
    IN  [self |-> [self EXCEPT !.inner = r.inner],
         ret |-> IF ~r.ok THEN Err(r.err)
                 ELSE Ok(IF self.order = "LE" THEN from_be_bytes(r.buf)
                         ELSE from_le_bytes(r.buf))]

\* read_u128 that calls read once and fails unless it filled the buffer
read_u128_single_read(self) ==
    LET r == Read_read(self.inner, size_of("u128"))
    IN  [self |-> [self EXCEPT !.inner = r.inner],
         ret |-> IF ~r.ret.ok THEN r.ret
                 ELSE IF Len(r.ret.val) < size_of("u128") THEN Err("UnexpectedEof")
                 ELSE Ok(IF self.order = "LE" THEN from_le_bytes(r.ret.val)
                         ELSE from_be_bytes(r.ret.val))]

read_u128(self) ==
    LET r == read_exact(self.inner, size_of("u128"))
    IN  [self |-> [self EXCEPT !.inner = r.inner],
         ret |-> IF ~r.ok THEN Err(r.err)
                 ELSE Ok(IF self.order = "LE" THEN from_le_bytes(r.buf)
                         ELSE from_be_bytes(r.buf))]

\* read_i128 that casts through i64: the value is cut to 64 bits
read_i128_through_i64(self) ==
    LET r == read_u128(self)
    IN  IF r.ret.ok
        THEN [r EXCEPT !.ret = Ok(as_signed("i64", r.ret.val % Modulus("i64")))]
        ELSE r

read_i128(self) ==
    LET r == read_u128(self)
    IN  IF r.ret.ok THEN [r EXCEPT !.ret = Ok(as_signed("i128", r.ret.val))] ELSE r

\* read_f32 that turns the all-ones NaN pattern into the positive one
read_f32_canonical(self) ==
    LET r == read_exact(self.inner, size_of("f32"))
        p == IF self.order = "LE" THEN from_le_bytes(r.buf) ELSE from_be_bytes(r.buf)
    IN  [self |-> [self EXCEPT !.inner = r.inner],
         ret |-> IF ~r.ok THEN Err(r.err)
                 ELSE Ok(from_bits(IF p = Modulus("f32") - 1
                                   THEN (Modulus("f32") \div 2) - 1 ELSE p))]

\* read_f32 with the two conversions exchanged
read_f32_exchanged(self) ==
    LET r == read_exact(self.inner, size_of("f32"))
    IN  [self |-> [self EXCEPT !.inner = r.inner],
         ret |-> IF ~r.ok THEN Err(r.err)
                 ELSE Ok(from_bits(IF self.order = "LE" THEN from_be_bytes(r.buf)
                                   ELSE from_le_bytes(r.buf)))]

read_f32(self) ==
    LET r == read_exact(self.inner, size_of("f32"))
    IN  [self |-> [self EXCEPT !.inner = r.inner],
         ret |-> IF ~r.ok THEN Err(r.err)
                 ELSE Ok(from_bits(IF self.order = "LE" THEN from_le_bytes(r.buf)
                                   ELSE from_be_bytes(r.buf)))]

read_f64(self) ==
    LET r == read_exact(self.inner, size_of("f64"))
    IN  [self |-> [self EXCEPT !.inner = r.inner],
         ret |-> IF ~r.ok THEN Err(r.err)
                 ELSE Ok(from_bits(IF self.order = "LE" THEN from_le_bytes(r.buf)
                                   ELSE from_be_bytes(r.buf)))]

(* ------------------------------ inputs --------------------------------- *)

\* widths of a byte a behaviour can have
ByteWidths == {1, 2, 4, 8}

\* bytes in a run of ValueBits bits
WordLen == ValueBits \div byte_bits

\* the j-th word of the two sample streams: 0x1234, 0x5678, 0x9ABC, ... (the
\* crate's doc test) and 0xA1B2, 0xC3D4, ... (NumberReader's doc test)
Word(stream, j) ==
    IF stream = 1 THEN (4660 + (j - 1) * 17476) % (2 ^ ValueBits)
    ELSE (41394 + (j - 1) * 8738) % (2 ^ ValueBits)

RECURSIVE Stream(_, _)
Stream(stream, words) ==
    IF words = 0 THEN <<>>
    ELSE Stream(stream, words - 1) \o be_digits(Word(stream, words), WordLen)

\* sample lengths of a source: the short ones, then every fourth
SampleLens == {n \in 0 .. (MaxWords * WordLen) : n <= 4 \/ n % 4 = 0}

\* sample sources: prefixes of the first MaxWords words of a stream
SampleData == {SubSeq(Stream(st, MaxWords), 1, n) : st \in {1, 2}, n \in SampleLens}

SourceChunks == {0, 1, 3}

\* sample sinks: a Vec, slices with room for 0 .. 17 bytes, sinks taking
\* 1 or 3 bytes per call
SampleSinks ==
    {Sink(FALSE, 0, 0)}
    \cup {Sink(TRUE, room, 0) : room \in {0, 1, 3, 7, 15, 17}}
    \cup {Sink(FALSE, 0, c) : c \in {1, 3}}
    \cup {Sink(TRUE, 5, 2)}

\* sample bit patterns of a kind: zero, one, an asymmetric one, the largest
\* signed (0x7F..), the smallest signed (0x80..), all ones
Patterns(k) ==
    {0, 1, from_be_bytes(SubSeq(Stream(1, 1), 1, size_of(k))),
     (Modulus(k) \div 2) - 1, Modulus(k) \div 2, Modulus(k) - 1}

\* sample arguments of write_<kind>
Values(k) ==
    IF k \notin Kinds THEN {}
    ELSE IF k \in UnsignedKinds THEN Patterns(k)
    ELSE IF k \in SignedKinds THEN {as_signed(k, p) : p \in Patterns(k)}
    ELSE {from_bits(p) : p \in Patterns(k)}

\* the argument of the i-th call of a sequencing run: the i-th word of the
\* first stream, cut to the kind's width
Nth(k, i) ==
    LET p == from_be_bytes(SubSeq(be_digits(Word(1, i), WordLen), 1, Min(size_of(k), WordLen)))
    IN  IF k \notin Kinds THEN {}
        ELSE IF k \in UnsignedKinds THEN {p}
        ELSE IF k \in SignedKinds THEN {as_signed(k, p)}
        ELSE {from_bits(p)}

(* ------------------------------ state ---------------------------------- *)

NoCall == [op |-> "none"]

\* how a wrapper was constructed: by new, or by with_order and with which
\* order; NotMade for the wrapper a run does not have
NotMade == [by |-> "none"]

\* the width/8 bytes a value of kind k stands for under order o
Encoding(k, o, v) ==
    LET n == size_of(k)
        u == IF k \in FloatKinds THEN v.bits ELSE v % Modulus(k)
    IN  [i \in 1 .. n |-> IF o = "BE" THEN (u \div Radix ^ (n - i)) % Radix
                                       ELSE (u \div Radix ^ (i - 1)) % Radix]

\* the order a wrapper was constructed for
MadeOrder(made) == IF made.by = "new" THEN NE ELSE made.order

InitWriter ==
    /\ target \in {"big", "little"}
    /\ byte_bits \in ByteWidths
    /\ pc = "write"
    /\ \E w \in SampleSinks :
          \/ \E o \in ByteOrder \cup {NE} :
                /\ writer = <<NumberWriter_with_order(o, w)>>
                /\ w_made = [by |-> "with_order", order |-> o]
          \/ /\ writer = <<NumberWriter_new(w)>>
             /\ w_made = [by |-> "new"]
    /\ reader = <<>> /\ r_made = NotMade
    /\ returned = <<>>
    /\ w_last = NoCall /\ r_last = NoCall
    /\ w_calls = 0 /\ r_calls = 0
    /\ w_sent = <<>> /\ w_errs = 0 /\ w_raw = 0
    /\ r_sum = 0 /\ r_errs = 0 /\ r_raw = 0

InitReader ==
    /\ target \in {"big", "little"}
    /\ byte_bits \in ByteWidths
    /\ pc = "read"
    /\ \E d \in SampleData, c \in SourceChunks :
          \/ \E o \in ByteOrder \cup {NE} :
                /\ reader = <<NumberReader_with_order(o, Source(d, c))>>
                /\ r_made = [by |-> "with_order", order |-> o]
          \/ /\ reader = <<NumberReader_new(Source(d, c))>>
             /\ r_made = [by |-> "new"]
    /\ writer = <<>> /\ w_made = NotMade
    /\ returned = <<>>
    /\ w_last = NoCall /\ r_last = NoCall
    /\ w_calls = 0 /\ r_calls = 0
    /\ w_sent = <<>> /\ w_errs = 0 /\ w_raw = 0
    /\ r_sum = 0 /\ r_errs = 0 /\ r_raw = 0

Init == InitWriter \/ InitReader

(* ------------------------------ actions -------------------------------- *)

\* a call of a write method: the writer is replaced by the one the method
\* leaves, and the call (kind, argument, writer before, result) is recorded;
\* w_sent strings together the encodings of the values whose write succeeded,
\* w_errs counts the writes that failed
WriterCall(k, n, out) ==
    /\ pc = "write"
    /\ k \in Kinds
    /\ writer' = <<out.self>>
    /\ w_last' = [op |-> "write", kind |-> k, arg |-> n, before |-> writer[1], ret |-> out.ret]
    /\ w_calls' = w_calls + 1
    /\ w_sent' = IF out.ret.ok THEN w_sent \o Encoding(k, MadeOrder(w_made), n) ELSE w_sent
    /\ w_errs' = IF out.ret.ok THEN w_errs ELSE w_errs + 1
    /\ UNCHANGED <<env, pc, returned, w_made, w_raw, rvars>>

\* a call of a read method, recorded in the same way; r_sum adds up the
\* widths of the reads that succeeded, r_errs counts those that failed
ReaderCall(k, out) ==
    /\ pc = "read"
    /\ k \in Kinds
    /\ reader' = <<out.self>>
    /\ r_last' = [op |-> "read", kind |-> k, before |-> reader[1], ret |-> out.ret]
    /\ r_calls' = r_calls + 1
    /\ r_sum' = IF out.ret.ok THEN r_sum + size_of(k) ELSE r_sum
    /\ r_errs' = IF out.ret.ok THEN r_errs ELSE r_errs + 1
    /\ UNCHANGED <<env, pc, returned, r_made, r_raw, wvars>>

WriteU8(n) == WriterCall("u8", n, write_u8(writer[1], n))

WriteI8(n) == WriterCall("i8", n, write_i8(writer[1], n))

WriteU16(n) == WriterCall("u16", n, write_u16(writer[1], n))

WriteI16(n) == WriterCall("i16", n, write_i16(writer[1], n))

WriteU32(n) == WriterCall("u32", n, write_u32(writer[1], n))

WriteI32(n) == WriterCall("i32", n, write_i32(writer[1], n))

WriteU64(n) == WriterCall("u64", n, write_u64(writer[1], n))

WriteI64(n) == WriterCall("i64", n, write_i64(writer[1], n))

WriteU128(n) == WriterCall("u128", n, write_u128(writer[1], n))

WriteI128(n) == WriterCall("i128", n, write_i128(writer[1], n))

WriteF32(n) == WriterCall("f32", n, write_f32(writer[1], n))

WriteF64(n) == WriterCall("f64", n, write_f64(writer[1], n))

ReadU8 == ReaderCall("u8", read_u8(reader[1]))

ReadI8 == ReaderCall("i8", read_i8(reader[1]))

ReadU16 == ReaderCall("u16", read_u16(reader[1]))

ReadI16 == ReaderCall("i16", read_i16(reader[1]))

ReadU32 == ReaderCall("u32", read_u32(reader[1]))

ReadI32 == ReaderCall("i32", read_i32(reader[1]))

ReadU64 == ReaderCall("u64", read_u64(reader[1]))

ReadI64 == ReaderCall("i64", read_i64(reader[1]))

ReadU128 == ReaderCall("u128", read_u128(reader[1]))

ReadI128 == ReaderCall("i128", read_i128(reader[1]))

ReadF32 == ReaderCall("f32", read_f32(reader[1]))

ReadF64 == ReaderCall("f64", read_f64(reader[1]))

\* NumberWriter::into_inner: the writer is consumed, the sink handed back
WriterIntoInner ==
    /\ pc = "write"
    /\ returned' = <<NumberWriter_into_inner(writer[1])>>
    /\ writer' = <<>>
    /\ pc' = "handed"
    /\ UNCHANGED <<env, w_made, w_last, w_calls, w_sent, w_errs, w_raw, rvars>>

\* NumberReader::into_inner: the reader is consumed, the source handed back
ReaderIntoInner ==
    /\ pc = "read"
    /\ returned' = <<NumberReader_into_inner(reader[1])>>
    /\ reader' = <<>>
    /\ pc' = "done"
    /\ UNCHANGED <<env, r_made, r_last, r_calls, r_sum, r_errs, r_raw, wvars>>

\* NumberWriter::get_ref: the caller looks at the sink, nothing changes
WriterGetRef ==
    /\ pc = "write"
    /\ w_last' = [op |-> "get_ref", before |-> writer[1],
                  ret |-> NumberWriter_get_ref(writer[1])]
    /\ w_calls' = w_calls + 1
    /\ UNCHANGED <<env, pc, returned, writer, w_made, w_sent, w_errs, w_raw, rvars>>

\* NumberWriter::get_mut: the caller writes `bytes` straight to the sink
\* through the mutable reference (writer.get_mut().write(bytes));
\* w_raw counts the bytes the sink accepted that way
WriterGetMut(bytes) ==
    /\ pc = "write"
    /\ LET r == Write_write(writer[1].inner, bytes)
       IN  /\ writer' = <<NumberWriter_get_mut(writer[1], r.inner)>>
           /\ w_last' = [op |-> "get_mut", before |-> writer[1], ret |-> r.ret]
           /\ w_raw' = IF r.ret.ok THEN w_raw + r.ret.val ELSE w_raw
    /\ w_calls' = w_calls + 1
    /\ UNCHANGED <<env, pc, returned, w_made, w_sent, w_errs, rvars>>

\* NumberReader::get_ref: the caller looks at the source, nothing changes
ReaderGetRef ==
    /\ pc = "read"
    /\ r_last' = [op |-> "get_ref", before |-> reader[1],
                  ret |-> NumberReader_get_ref(reader[1])]
    /\ r_calls' = r_calls + 1
    /\ UNCHANGED <<env, pc, returned, reader, r_made, r_sum, r_errs, r_raw, wvars>>

\* NumberReader::get_mut: the caller reads up to n bytes straight from the
\* source through the mutable reference (reader.get_mut().read(buf));
\* r_raw counts the bytes handed over outside the typed reads
ReaderGetMut(n) ==
    /\ pc = "read"
    /\ LET r == Read_read(reader[1].inner, n)
       IN  /\ reader' = <<NumberReader_get_mut(reader[1], r.inner)>>
           /\ r_last' = [op |-> "get_mut", before |-> reader[1], len |-> n, ret |-> r.ret]
           /\ r_raw' = IF r.ret.ok THEN r_raw + Len(r.ret.val) ELSE r_raw
    /\ r_calls' = r_calls + 1
    /\ UNCHANGED <<env, pc, returned, r_made, r_sum, r_errs, wvars>>

\* Read::read on the reader itself with a buffer of n bytes
ReaderRead(n) ==
    /\ pc = "read"
    /\ LET out == NumberReader_read(reader[1], n)
       IN  /\ reader' = <<out.self>>
           /\ r_last' = [op |-> "raw", before |-> reader[1], len |-> n, ret |-> out.ret]
           /\ r_raw' = IF out.ret.ok THEN r_raw + Len(out.ret.val) ELSE r_raw
    /\ r_calls' = r_calls + 1
    /\ UNCHANGED <<env, pc, returned, r_made, r_sum, r_errs, wvars>>

\* a reader made over the bytes a writer's sink handed back
\* (NumberReader::with_order(order, Cursor::new(bytes)))
ReadBack(order, chunk) ==
    /\ pc = "handed"
    /\ reader' = <<NumberReader_with_order(order, Source(returned[1].data, chunk))>>
    /\ r_made' = [by |-> "with_order", order |-> order]
    /\ pc' = "read"
    /\ UNCHANGED <<env, returned, r_last, r_calls, r_sum, r_errs, r_raw, wvars>>

(* --------------------------- specifications ---------------------------- *)

\* Sequencing runs: up to MaxCalls calls on a writer over a sample sink, or
\* on a reader over a sample source.
Next ==
    \/ w_calls < MaxCalls /\ \E n \in Nth("u8", w_calls + 1) : WriteU8(n)
    \/ w_calls < MaxCalls /\ \E n \in Nth("i8", w_calls + 1) : WriteI8(n)
    \/ w_calls < MaxCalls /\ \E n \in Nth("u16", w_calls + 1) : WriteU16(n)
    \/ w_calls < MaxCalls /\ \E n \in Nth("i16", w_calls + 1) : WriteI16(n)
    \/ w_calls < MaxCalls /\ \E n \in Nth("u32", w_calls + 1) : WriteU32(n)
    \/ w_calls < MaxCalls /\ \E n \in Nth("i32", w_calls + 1) : WriteI32(n)
    \/ w_calls < MaxCalls /\ \E n \in Nth("u64", w_calls + 1) : WriteU64(n)
    \/ w_calls < MaxCalls /\ \E n \in Nth("i64", w_calls + 1) : WriteI64(n)
    \/ w_calls < MaxCalls /\ \E n \in Nth("u128", w_calls + 1) : WriteU128(n)
    \/ w_calls < MaxCalls /\ \E n \in Nth("i128", w_calls + 1) : WriteI128(n)
    \/ w_calls < MaxCalls /\ \E n \in Nth("f32", w_calls + 1) : WriteF32(n)
    \/ w_calls < MaxCalls /\ \E n \in Nth("f64", w_calls + 1) : WriteF64(n)
    \/ r_calls < MaxCalls /\ ReadU8
    \/ r_calls < MaxCalls /\ ReadI8
    \/ r_calls < MaxCalls /\ ReadU16
    \/ r_calls < MaxCalls /\ ReadI16
    \/ r_calls < MaxCalls /\ ReadU32
    \/ r_calls < MaxCalls /\ ReadI32
    \/ r_calls < MaxCalls /\ ReadU64
    \/ r_calls < MaxCalls /\ ReadI64
    \/ r_calls < MaxCalls /\ ReadU128
    \/ r_calls < MaxCalls /\ ReadI128
    \/ r_calls < MaxCalls /\ ReadF32
    \/ r_calls < MaxCalls /\ ReadF64
    \/ pc = "write" /\ WriterIntoInner
    \/ pc = "read" /\ ReaderIntoInner

Spec == Init /\ [][Next]_vars

\* Codec runs: one value written to an empty sink, the sink handed back, a
\* reader made over its bytes, one value read.
NextCodec ==
    \/ w_calls = 0 /\ \E n \in Values("u8") : WriteU8(n)
    \/ w_calls = 0 /\ \E n \in Values("i8") : WriteI8(n)
    \/ w_calls = 0 /\ \E n \in Values("u16") : WriteU16(n)
    \/ w_calls = 0 /\ \E n \in Values("i16") : WriteI16(n)
    \/ w_calls = 0 /\ \E n \in Values("u32") : WriteU32(n)
    \/ w_calls = 0 /\ \E n \in Values("i32") : WriteI32(n)
    \/ w_calls = 0 /\ \E n \in Values("u64") : WriteU64(n)
    \/ w_calls = 0 /\ \E n \in Values("i64") : WriteI64(n)
    \/ w_calls = 0 /\ \E n \in Values("u128") : WriteU128(n)
    \/ w_calls = 0 /\ \E n \in Values("i128") : WriteI128(n)
    \/ w_calls = 0 /\ \E n \in Values("f32") : WriteF32(n)
    \/ w_calls = 0 /\ \E n \in Values("f64") : WriteF64(n)
    \/ r_calls = 0 /\ ReadU8
    \/ r_calls = 0 /\ ReadI8
    \/ r_calls = 0 /\ ReadU16
    \/ r_calls = 0 /\ ReadI16
    \/ r_calls = 0 /\ ReadU32
    \/ r_calls = 0 /\ ReadI32
    \/ r_calls = 0 /\ ReadU64
    \/ r_calls = 0 /\ ReadI64
    \/ r_calls = 0 /\ ReadU128
    \/ r_calls = 0 /\ ReadI128
    \/ r_calls = 0 /\ ReadF32
    \/ r_calls = 0 /\ ReadF64
    \/ WriterIntoInner
    \/ \E o \in ByteOrder, c \in SourceChunks : ReadBack(o, c)

SpecCodec == InitWriter /\ [][NextCodec]_vars

\* I/O runs: the sources and sinks may report one error, and the caller also
\* uses the accessors and the reader's own Read::read.
ErrorKinds == {"Interrupted", "TimedOut"}

Faults(inner) == {inner} \cup {Faulty(inner, n, e) : n \in {0, 1}, e \in ErrorKinds}

IOSources ==
    UNION {Faults(Source(SubSeq(Stream(1, MaxWords), 1, n), c)) :
              n \in {1, MaxWords * WordLen}, c \in {0, 1}}
    \cup {Cursor(SubSeq(Stream(1, MaxWords), 1, n), e) :
              n \in {1, MaxWords * WordLen}, e \in CursorKinds}

IOSinks == UNION {Faults(w) : w \in {Sink(FALSE, 0, 0), Sink(TRUE, 3, 0), Sink(FALSE, 0, 1)}}

\* buffer lengths of the raw reads, byte runs of the raw writes
RawLens == {1, 3}

RawRuns == {<<1, 0>>}

InitIO ==
    /\ target \in {"big", "little"}
    /\ byte_bits \in ByteWidths
    /\ \/ /\ pc = "write"
          /\ \E w \in IOSinks :
                \/ \E o \in ByteOrder :
                      /\ writer = <<NumberWriter_with_order(o, w)>>
                      /\ w_made = [by |-> "with_order", order |-> o]
                \/ /\ writer = <<NumberWriter_new(w)>>
                   /\ w_made = [by |-> "new"]
          /\ reader = <<>> /\ r_made = NotMade
       \/ /\ pc = "read"
          /\ \E src \in IOSources :
                \/ \E o \in ByteOrder :
                      /\ reader = <<NumberReader_with_order(o, src)>>
                      /\ r_made = [by |-> "with_order", order |-> o]
                \/ /\ reader = <<NumberReader_new(src)>>
                   /\ r_made = [by |-> "new"]
          /\ writer = <<>> /\ w_made = NotMade
    /\ returned = <<>>
    /\ w_last = NoCall /\ r_last = NoCall
    /\ w_calls = 0 /\ r_calls = 0
    /\ w_sent = <<>> /\ w_errs = 0 /\ w_raw = 0
    /\ r_sum = 0 /\ r_errs = 0 /\ r_raw = 0

NextIO ==
    \/ Next
    \/ w_calls < MaxCalls /\ WriterGetRef
    \/ w_calls < MaxCalls /\ \E b \in RawRuns : WriterGetMut(b)
    \/ r_calls < MaxCalls /\ ReaderGetRef
    \/ r_calls < MaxCalls /\ \E n \in RawLens : ReaderGetMut(n)
    \/ r_calls < MaxCalls /\ \E n \in RawLens : ReaderRead(n)

SpecIO == InitIO /\ [][NextIO]_vars

(* ------------------------------ properties ----------------------------- *)

IntKinds == UnsignedKinds \cup SignedKinds

\* one value was written to the empty sink and accepted, and one value of the
\* same kind was read back by a reader of the writer's order
ReadBackSame ==
    /\ pc = "read"
    /\ w_calls = 1 /\ r_calls = 1
    /\ w_last.ret.ok
    /\ w_last.before.inner.data = <<>>
    /\ r_last.kind = w_last.kind
    /\ r_last.before.order = w_last.before.order

\* C1: an integer written by write_<kind> to an empty sink and read back by
\* read_<kind> under the same order is returned unchanged, for every
\* integer kind, both orders and every value.
C1_IntRoundTrip ==
    (ReadBackSame /\ w_last.kind \in IntKinds)
        => (r_last.ret.ok /\ r_last.ret.val = w_last.arg)

\* the smallest i128 went through a little-endian round trip
C1_Witness ==
    /\ ReadBackSame
    /\ w_last.kind = "i128"
    /\ w_last.before.order = "LE"
    /\ w_last.arg = -(Modulus("i128") \div 2)
    /\ r_last.ret.ok

\* C2: a float written by write_f32 / write_f64 and read back under the same
\* order has exactly the bit pattern that was written, whatever the pattern
\* (negative zero, infinities, NaNs); none is rejected.
C2_FloatRoundTrip ==
    (ReadBackSame /\ w_last.kind \in FloatKinds)
        => (r_last.ret.ok /\ to_bits(r_last.ret.val) = to_bits(w_last.arg))

\* the all-ones pattern (a NaN with the sign and every payload bit set) went
\* through a big-endian f32 round trip
C2_Witness ==
    /\ ReadBackSame
    /\ w_last.kind = "f32"
    /\ w_last.before.order = "BE"
    /\ to_bits(w_last.arg) = Modulus("f32") - 1
    /\ r_last.ret.ok

(* ---- what the last call did, and the same call made on another wrapper - *)

RECURSIVE Reverse(_)
Reverse(s) == IF s = <<>> THEN <<>> ELSE Reverse(Tail(s)) \o <<Head(s)>>

\* the bytes the last write call added to the sink
Appended ==
    SubSeq(writer[1].inner.data, Len(w_last.before.inner.data) + 1,
           Len(writer[1].inner.data))

\* the run of width/8 bytes at the front of the source before the last read
FrontRun ==
    SubSeq(r_last.before.inner.data, r_last.before.inner.pos + 1,
           r_last.before.inner.pos + size_of(r_last.kind))

\* write_<k>(n) called on the writer `self`
CallWrite(k, self, n) ==
    CASE k = "u8" -> write_u8(self, n)     [] k = "i8" -> write_i8(self, n)
      [] k = "u16" -> write_u16(self, n)   [] k = "i16" -> write_i16(self, n)
      [] k = "u32" -> write_u32(self, n)   [] k = "i32" -> write_i32(self, n)
      [] k = "u64" -> write_u64(self, n)   [] k = "i64" -> write_i64(self, n)
      [] k = "u128" -> write_u128(self, n) [] k = "i128" -> write_i128(self, n)
      [] k = "f32" -> write_f32(self, n)   [] k = "f64" -> write_f64(self, n)

\* read_<k>() called on the reader `self`
CallRead(k, self) ==
    CASE k = "u8" -> read_u8(self)     [] k = "i8" -> read_i8(self)
      [] k = "u16" -> read_u16(self)   [] k = "i16" -> read_i16(self)
      [] k = "u32" -> read_u32(self)   [] k = "i32" -> read_i32(self)
      [] k = "u64" -> read_u64(self)   [] k = "i64" -> read_i64(self)
      [] k = "u128" -> read_u128(self) [] k = "i128" -> read_i128(self)
      [] k = "f32" -> read_f32(self)   [] k = "f64" -> read_f64(self)

OtherOrder(o) == IF o = "BE" THEN "LE" ELSE "BE"

\* the last write call succeeded and the writer is still there
Wrote == pc = "write" /\ w_last.op = "write" /\ w_last.ret.ok

\* the last read call succeeded
DidRead == r_last.op = "read" /\ r_last.ret.ok

\* C3: the bytes a writer emits for a value of a kind of 16 bits or more are
\* the reversal of the bytes a writer of the other order emits for the same
\* value; for write_u8 and write_i8 both orders emit the same single byte.
C3_EncodingSymmetry ==
    Wrote =>
        LET mirror == CallWrite(w_last.kind,
                                [w_last.before EXCEPT !.order = OtherOrder(@)],
                                w_last.arg)
            theirs == SubSeq(mirror.self.inner.data, Len(w_last.before.inner.data) + 1,
                             Len(mirror.self.inner.data))
        IN  /\ mirror.ret.ok
            /\ IF size_of(w_last.kind) >= 2
               THEN Appended = Reverse(theirs)
               ELSE Appended = theirs /\ Len(Appended) = 1

\* a big-endian writer emitted an asymmetric u32
C3_Witness ==
    /\ Wrote
    /\ w_last.kind = "u32"
    /\ w_last.before.order = "BE"
    /\ Appended # Reverse(Appended)

\* sum of b[i] * Radix^(n - i): the first byte most significant
RECURSIVE SumBE(_, _)
SumBE(b, i) ==
    IF i > Len(b) THEN 0 ELSE b[i] * Radix ^ (Len(b) - i) + SumBE(b, i + 1)

\* sum of b[i] * Radix^(i - 1): the first byte least significant
RECURSIVE SumLE(_, _)
SumLE(b, i) ==
    IF i > Len(b) THEN 0 ELSE b[i] * Radix ^ (i - 1) + SumLE(b, i + 1)

WideUnsigned == {"u16", "u32", "u64", "u128"}

\* C4: read_uN (N >= 16) returns the front run read with its first byte most
\* significant on a BE reader and least significant on an LE reader; bytes
\* 0x12 0x34 read as u16 give 0x1234 under BE and 0x3412 under LE.
C4_UnsignedDecodeLayout ==
    (DidRead /\ r_last.kind \in WideUnsigned) =>
        /\ r_last.before.order = "BE" => r_last.ret.val = SumBE(FrontRun, 1)
        /\ r_last.before.order = "LE" => r_last.ret.val = SumLE(FrontRun, 1)
        /\ (byte_bits = 8 /\ r_last.kind = "u16" /\ FrontRun = <<18, 52>>) =>
              r_last.ret.val = IF r_last.before.order = "BE" THEN 4660 ELSE 13330

\* a little-endian reader read 0x12 0x34 as u16
C4_Witness ==
    /\ DidRead
    /\ byte_bits = 8
    /\ r_last.kind = "u16"
    /\ r_last.before.order = "LE"
    /\ FrontRun = <<18, 52>>
    /\ r_last.ret.val = 13330

\* C5: a successful write_<kind> adds exactly width/8 bytes to the sink, and
\* for an unsigned value v of 16 bits or more the i-th added byte (from 0) is
\* (v div Radix^(width/8 - 1 - i)) mod Radix on a BE writer and
\* (v div Radix^i) mod Radix on an LE writer.
C5_EncodeLayout ==
    Wrote =>
        LET n == size_of(w_last.kind)
            v == w_last.arg
        IN  /\ Len(Appended) = n
            /\ w_last.kind \in WideUnsigned =>
                  \A i \in 0 .. (n - 1) :
                      Appended[i + 1] =
                          IF w_last.before.order = "BE"
                          THEN (v \div Radix ^ (n - 1 - i)) % Radix
                          ELSE (v \div Radix ^ i) % Radix

\* a little-endian writer wrote an asymmetric u64
C5_Witness ==
    /\ Wrote
    /\ w_last.kind = "u64"
    /\ w_last.before.order = "LE"
    /\ Appended # Reverse(Appended)

\* C6: read_iN returns the two's-complement reading of the value u that
\* read_uN returns on the same bytes and order: u below 2^(N-1), u - 2^N
\* otherwise, at every width.
C6_SignedDecode ==
    (DidRead /\ pc = "read" /\ r_last.kind \in SignedKinds) =>
        LET k == r_last.kind
            u == CallRead(bits_kind(k), r_last.before)
        IN  /\ u.ret.ok
            /\ u.self = reader[1]
            /\ r_last.ret.val =
                  IF u.ret.val < Modulus(k) \div 2 THEN u.ret.val
                  ELSE u.ret.val - Modulus(k)

\* read_i128 returned a negative value
C6_Witness ==
    /\ DidRead
    /\ pc = "read"
    /\ r_last.kind = "i128"
    /\ r_last.ret.val < 0

\* C7: write_iN(s) emits the bytes write_uN(s mod 2^N) emits, and leaves the
\* same sink and result; write_i32(-1) emits four all-ones bytes (0xFF with
\* 8-bit bytes, as write_i16(-1) emits 0xFF 0xFF) under both orders.
C7_SignedEncode ==
    (pc = "write" /\ w_last.op = "write" /\ w_last.kind \in SignedKinds) =>
        LET k == w_last.kind
            u == CallWrite(bits_kind(k), w_last.before, w_last.arg % Modulus(k))
        IN  /\ u.self = writer[1]
            /\ u.ret = w_last.ret
            /\ (w_last.ret.ok /\ k = "i32" /\ w_last.arg = -1) =>
                  Appended = <<Radix - 1, Radix - 1, Radix - 1, Radix - 1>>
            /\ (w_last.ret.ok /\ k = "i16" /\ w_last.arg = -1 /\ byte_bits = 8) =>
                  Appended = <<255, 255>>

\* write_i32(-1) was accepted
C7_Witness ==
    /\ Wrote
    /\ w_last.kind = "i32"
    /\ w_last.arg = -1

\* bytes the source had left before the last read
LeftBefore == Len(r_last.before.inner.data) - r_last.before.inner.pos

\* C8: a read_<kind> whose source ends with fewer than width/8 bytes left
\* (none included) returns the unexpected-end-of-input error and no value.
C8_ShortRead ==
    (r_last.op = "read" /\ LeftBefore < size_of(r_last.kind)) =>
        /\ ~r_last.ret.ok
        /\ r_last.ret.err = "UnexpectedEof"
        /\ DOMAIN r_last.ret = {"ok", "err"}

\* read_u32 found one, two or three bytes
C8_Witness ==
    /\ r_last.op = "read"
    /\ r_last.kind = "u32"
    /\ LeftBefore > 0 /\ LeftBefore < size_of("u32")
    /\ ~r_last.ret.ok

\* C9: a write_<kind> whose sink stops accepting output before it took the
\* width/8 bytes returns the incomplete-write error (WriteZero), and a write
\* that returns success had all width/8 bytes accepted.
C9_ShortWrite ==
    (pc = "write" /\ w_last.op = "write") =>
        LET n == size_of(w_last.kind)
            snk == w_last.before.inner
        IN  /\ (snk.limited /\ snk.room < n) =>
                  (~w_last.ret.ok /\ w_last.ret.err = "WriteZero")
            /\ Len(Appended) < n =>
                  (~w_last.ret.ok /\ w_last.ret.err = "WriteZero")
            /\ w_last.ret.ok => Len(Appended) = n

\* write_u32 had one, two or three bytes accepted
C9_Witness ==
    /\ pc = "write" /\ w_last.op = "write"
    /\ w_last.kind = "u32"
    /\ Len(Appended) > 0 /\ Len(Appended) < size_of("u32")
    /\ ~w_last.ret.ok

\* the value a run of bytes stands for, read as kind k under order o
Reading(k, o, run) ==
    LET u == IF o = "BE" THEN SumBE(run, 1) ELSE SumLE(run, 1)
    IN  IF k \in SignedKinds
        THEN (IF u < Modulus(k) \div 2 THEN u ELSE u - Modulus(k))
        ELSE IF k \in FloatKinds THEN [bits |-> u] ELSE u

\* C10: a successful read_<kind> advances the source by exactly width/8
\* bytes; while every read has succeeded the position is the sum of the
\* widths read and the last read decoded the run that ends there; a BE reader
\* over 0x12 0x34 0x56 0x78 returns 0x1234 and then 0x5678 from read_u16.
C10_ExactConsumption ==
    (pc = "read" /\ DidRead) =>
        LET n == size_of(r_last.kind)
            src == reader[1].inner
        IN  /\ src.pos = r_last.before.inner.pos + n
            /\ r_errs = 0 =>
                  /\ src.pos = r_sum
                  /\ r_last.ret.val =
                        Reading(r_last.kind, r_last.before.order,
                                SubSeq(src.data, r_sum - n + 1, r_sum))
            /\ (byte_bits = 8 /\ src.data = <<18, 52, 86, 120>> /\ r_errs = 0
                  /\ r_last.kind = "u16" /\ r_last.before.order = "BE") =>
                  /\ r_calls = 1 => r_last.ret.val = 4660
                  /\ (r_calls = 2 /\ r_sum = 4) => r_last.ret.val = 22136

\* the second read_u16 of a BE reader over 0x12 0x34 0x56 0x78 gave 0x5678
C10_Witness ==
    /\ pc = "read" /\ DidRead
    /\ byte_bits = 8
    /\ reader[1].inner.data = <<18, 52, 86, 120>>
    /\ r_last.kind = "u16" /\ r_last.before.order = "BE"
    /\ r_calls = 2 /\ r_sum = 4
    /\ r_last.ret.val = 22136

\* C11: after a sequence of successful write_<kind> calls the sink, as the
\* writer holds it and as into_inner hands it back, is the concatenation in
\* call order of each value's width/8-byte encoding under the writer's
\* order; an LE writer given write_u16(0x1234) then write_u16(0x5678) hands
\* back 0x34 0x12 0x78 0x56.
C11_AppendInCallOrder ==
    (w_errs = 0 /\ w_raw = 0) =>
        /\ pc = "write" => writer[1].inner.data = w_sent
        /\ pc = "handed" => returned[1].data = w_sent
        /\ (pc = "handed" /\ byte_bits = 8 /\ w_calls = 2 /\ Len(w_sent) = 4
              /\ MadeOrder(w_made) = "LE" /\ w_last.kind = "u16" /\ w_last.arg = 22136) =>
              returned[1].data = <<52, 18, 120, 86>>

\* an LE writer was given two 16-bit values, the second write_u16(0x5678),
\* and handed back four bytes
C11_Witness ==
    /\ pc = "handed" /\ byte_bits = 8
    /\ w_calls = 2 /\ w_errs = 0 /\ w_raw = 0
    /\ MadeOrder(w_made) = "LE"
    /\ w_last.kind = "u16" /\ w_last.arg = 22136
    /\ returned[1].data = <<52, 18, 120, 86>>

\* C12: a wrapper's order is, in every state, the order it was constructed
\* with (the one given to with_order, NE for new), whatever reads, writes,
\* raw reads, get_ref and get_mut calls and failed operations came before;
\* and every typed operation converts with that order: the writer a write
\* ran on and the reader a read ran on carried it, a successful read returned
\* the value the layout of that order gives for the bytes it consumed, and a
\* successful write appended the encoding of its argument in that order.
C12_FixedOrder ==
    /\ writer # <<>> => writer[1].order = MadeOrder(w_made)
    /\ reader # <<>> => reader[1].order = MadeOrder(r_made)
    /\ w_last.op # "none" => w_last.before.order = MadeOrder(w_made)
    /\ r_last.op # "none" => r_last.before.order = MadeOrder(r_made)
    /\ (w_last.op = "write" /\ w_last.ret.ok /\ pc = "write") =>
          Appended = Encoding(w_last.kind, MadeOrder(w_made), w_last.arg)
    /\ (r_last.op = "read" /\ r_last.ret.ok /\ r_last.kind \in IntKinds) =>
          Encoding(r_last.kind, MadeOrder(r_made), r_last.ret.val) = FrontRun

\* a reader made with an order other than the native one, after a failed
\* read and a raw read through get_mut
C12_Witness ==
    /\ pc = "read" /\ r_calls = 2 /\ r_errs = 1
    /\ r_last.op = "get_mut" /\ r_last.ret.ok
    /\ r_made.by = "with_order" /\ r_made.order # NE
    /\ reader[1].order = r_made.order

\* C13: a wrapper made by new behaves like one made by with_order(NE, ..)
\* over the same source or sink: each typed call on it left the wrapper and
\* returned the result that the same call gives on with_order(NE, ..) holding
\* the source or sink as it was before the call; and the first read_u16 of a
\* reader made by new over the bytes A1 B2 returns 0xB2A1 on a little-endian
\* target and 0xA1B2 on a big-endian one.
C13_NativeDefault ==
    /\ (pc = "read" /\ r_made.by = "new" /\ r_last.op = "read") =>
          [self |-> reader[1], ret |-> r_last.ret]
              = CallRead(r_last.kind, NumberReader_with_order(NE, r_last.before.inner))
    /\ (pc = "write" /\ w_made.by = "new" /\ w_last.op = "write") =>
          [self |-> writer[1], ret |-> w_last.ret]
              = CallWrite(w_last.kind, NumberWriter_with_order(NE, w_last.before.inner),
                          w_last.arg)
    /\ (byte_bits = 8 /\ r_made.by = "new" /\ r_last.op = "read" /\ r_last.kind = "u16"
          /\ r_last.before.inner.pos = 0 /\ Len(r_last.before.inner.data) >= 2
          /\ SubSeq(r_last.before.inner.data, 1, 2) = <<161, 178>>) =>
          r_last.ret = Ok(IF target = "little" THEN 45729 ELSE 41394)

\* on a little-endian target a reader made by new has decoded A1 B2 to 0xB2A1
C13_Witness ==
    /\ byte_bits = 8 /\ target = "little"
    /\ r_made.by = "new" /\ r_last.op = "read" /\ r_last.kind = "u16"
    /\ r_last.before.inner.pos = 0 /\ Len(r_last.before.inner.data) >= 2
    /\ SubSeq(r_last.before.inner.data, 1, 2) = <<161, 178>>
    /\ r_last.ret.ok /\ r_last.ret.val = 45729

\* C14: NE is one of the two variants: BE exactly when the build target is
\* big-endian, LE exactly when it is not; and it does not depend on the data
\* read or written: after any calls, a wrapper made by new holds the order
\* the target alone decides.
C14_NativeOrder ==
    /\ NE \in ByteOrder
    /\ (NE = "BE") <=> (target = "big")
    /\ (NE = "LE") <=> (target # "big")
    /\ (reader # <<>> /\ r_made.by = "new") =>
          reader[1].order = (IF target = "big" THEN "BE" ELSE "LE")
    /\ (writer # <<>> /\ w_made.by = "new") =>
          writer[1].order = (IF target = "big" THEN "BE" ELSE "LE")

\* on a big-endian target, a reader made by new is big-endian after two reads
C14_Witness ==
    /\ target = "big" /\ NE = "BE"
    /\ pc = "read" /\ r_made.by = "new" /\ r_calls = 2
    /\ reader[1].order = "BE"

\* the single-precision value with bit pattern p is num / 16 (a normal number
\* with sign 0: (2^23 + mantissa) * 2^(exponent - 127 - 23))
IsSixteenths(p, num) ==
    LET sign == (p \div 1073741824) \div 2
        exponent == (p \div 8388608) % 256
        mantissa == p % 8388608
    IN  /\ sign = 0
        /\ exponent \in 127 .. 131
        /\ (8388608 + mantissa) * 2 ^ (exponent - 127) * 16 = num * 8388608

\* C15: the bit pattern of the value a successful read_f32 (read_f64)
\* returned is the value read_u32 (read_u64) returns on the same reader, and
\* both leave the same reader; with 8-bit bytes, read_f32 on a BE reader over
\* 41 48 00 00 and on an LE reader over 00 00 48 41 both return the pattern
\* 0x41480000, which is 12.5 (200 sixteenths).
C15_FloatDecode ==
    /\ (DidRead /\ r_last.kind \in FloatKinds /\ pc = "read") =>
          LET int == CallRead(bits_kind(r_last.kind), r_last.before)
          IN  /\ int.ret.ok
              /\ to_bits(r_last.ret.val) = int.ret.val
              /\ reader[1] = int.self
    /\ byte_bits = 8 =>
          LET be == read_f32(NumberReader_with_order("BE", Source(<<65, 72, 0, 0>>, 0)))
              le == read_f32(NumberReader_with_order("LE", Source(<<0, 0, 72, 65>>, 0)))
          IN  /\ be.ret.ok /\ le.ret.ok
              /\ to_bits(be.ret.val) = 1095237632
              /\ to_bits(le.ret.val) = 1095237632
              /\ IsSixteenths(to_bits(be.ret.val), 200)

\* a successful read_f32 of a run that is not its own mirror image
C15_Witness ==
    /\ DidRead /\ r_last.kind = "f32" /\ pc = "read"
    /\ FrontRun # Reverse(FrontRun)
    /\ to_bits(r_last.ret.val) = CallRead("u32", r_last.before).ret.val

\* C16: a successful read_u8 or read_i8 returned what the same read returns
\* on the same source under the other order; a successful read of a wider
\* kind returned what the same read returns on a reader of the other order
\* over the run it consumed, reversed.
C16_DecodeSymmetry ==
    DidRead =>
        LET k == r_last.kind
            o == OtherOrder(r_last.before.order)
        IN  /\ size_of(k) = 1 =>
                  CallRead(k, [r_last.before EXCEPT !.order = o]).ret = r_last.ret
            /\ size_of(k) > 1 =>
                  CallRead(k, NumberReader_with_order(o, Source(Reverse(FrontRun), 0))).ret
                      = r_last.ret

\* a BE reader decoded eight bytes that are not their own mirror image; the
\* LE reading of the same run gives another value
C16_Witness ==
    /\ DidRead /\ r_last.kind = "u64" /\ r_last.before.order = "BE"
    /\ FrontRun # Reverse(FrontRun)
    /\ r_last.ret.val = from_be_bytes(FrontRun)
    /\ r_last.ret.val # from_le_bytes(FrontRun)

\* C17: a NumberWriter offers a raw byte write and a flush of its own, as a
\* NumberReader offers a raw read of its own.
C17_WriterPassThrough ==
    /\ reader # <<>> => "read" \in NumberReader_methods
    /\ writer # <<>> => {"write", "flush"} \subseteq NumberWriter_methods

\* C18: a Read::read on the reader returned what Read::read on the wrapped
\* source, as it was before the call, returns for a buffer of that length,
\* and left the source as that call leaves it: on success the bytes are the
\* next ones of the source in source order, whatever the reader's order, and
\* the source has advanced by their number; the order is untouched.  Raw and
\* typed reads continue from where the previous call stopped: while no typed
\* read has failed, the source position is the sum of the widths of the typed
\* reads and of the counts of the raw reads, and a typed read decodes the run
\* that starts there.
C18_RawRead ==
    /\ (pc = "read" /\ r_last.op = "raw") =>
          LET src == r_last.before.inner
              direct == Read_read(src, r_last.len)
          IN  /\ r_last.ret = direct.ret
              /\ reader[1].inner = direct.inner
              /\ reader[1].order = r_last.before.order
              /\ r_last.ret.ok =>
                    /\ Len(r_last.ret.val) = read_len(src, r_last.len)
                    /\ r_last.ret.val
                          = SubSeq(src.data, src.pos + 1, src.pos + Len(r_last.ret.val))
                    /\ reader[1].inner.pos = src.pos + Len(r_last.ret.val)
                    /\ reader[1].inner.data = src.data
    /\ (pc = "read" /\ r_errs = 0) => reader[1].inner.pos = r_sum + r_raw
    /\ (pc = "read" /\ r_errs = 0 /\ DidRead) =>
          /\ r_last.before.inner.pos + size_of(r_last.kind) = r_sum + r_raw
          /\ r_last.kind \in IntKinds =>
                Encoding(r_last.kind, r_last.before.order, r_last.ret.val) = FrontRun

\* an LE reader, after a typed read, handed over three bytes in source order
\* that are not their own mirror image
C18_Witness ==
    /\ pc = "read" /\ r_calls = 2 /\ r_sum > 0 /\ r_errs = 0
    /\ r_last.op = "raw" /\ r_last.ret.ok
    /\ reader[1].order = "LE"
    /\ Len(r_last.ret.val) = 3
    /\ r_last.ret.val # Reverse(r_last.ret.val)
    /\ r_last.ret.val = SubSeq(reader[1].inner.data, r_sum + 1, r_sum + 3)

\* the last typed read (write) was the call during which the source (sink)
\* reported the error that was due
ReadMetError ==
    /\ pc = "read" /\ r_last.op = "read"
    /\ r_last.before.inner.fault # "none" /\ reader[1].inner.fault = "none"

WriteMetError ==
    /\ pc = "write" /\ w_last.op = "write"
    /\ w_last.before.inner.fault # "none" /\ writer[1].inner.fault = "none"

\* the same wrapper over the same source or sink with no error due
Unfaulted(self) == [self EXCEPT !.inner.fault = "none", !.inner.after = 0]

\* C19 as first stated: whenever the source or sink reported an error during
\* a typed read or write, the call returned that error.
C19_AnyErrorReturned ==
    /\ ReadMetError => r_last.ret = Err(r_last.before.inner.fault)
    /\ WriteMetError => w_last.ret = Err(w_last.before.inner.fault)

\* C19, amended: an error other than Interrupted that the source or sink
\* reported during a typed read or write ended the call at once (the source
\* or sink is as that failing call left it: nothing was read or written
\* after the error) and is what the call returned; an Interrupted error was
\* absorbed by read_exact / write_all, and the call ended as it ends when no
\* error is due; a failed call returned an error and no value, and that
\* error is the one reported or the end-of-data error of read_exact
\* (UnexpectedEof) or write_all (WriteZero); a call that returned a value
\* consumed its full run and decoded it by the layout rule.
C19_ErrorsPropagate ==
    /\ (ReadMetError /\ r_last.before.inner.fault # "Interrupted") =>
          LET src == r_last.before.inner
              first == IF src.after = 0 THEN 0 ELSE read_len(src, size_of(r_last.kind))
          IN  /\ r_last.ret = Err(src.fault)
              /\ reader[1].inner.pos = src.pos + first
    /\ (WriteMetError /\ w_last.before.inner.fault # "Interrupted") =>
          LET snk == w_last.before.inner
              first == IF snk.after = 0 THEN 0 ELSE write_len(snk, size_of(w_last.kind))
          IN  /\ w_last.ret = Err(snk.fault)
              /\ Len(writer[1].inner.data) = Len(snk.data) + first
    /\ (ReadMetError /\ r_last.before.inner.fault = "Interrupted") =>
          LET calm == CallRead(r_last.kind, Unfaulted(r_last.before))
          IN  /\ r_last.ret = calm.ret
              /\ reader[1] = calm.self
    /\ (WriteMetError /\ w_last.before.inner.fault = "Interrupted") =>
          LET calm == CallWrite(w_last.kind, Unfaulted(w_last.before), w_last.arg)
          IN  /\ w_last.ret = calm.ret
              /\ writer[1] = calm.self
    /\ (r_last.op = "read" /\ ~r_last.ret.ok) =>
          /\ DOMAIN r_last.ret = {"ok", "err"}
          /\ r_last.ret.err \in {"UnexpectedEof", "TimedOut"}
          /\ r_last.ret.err = "TimedOut" => r_last.before.inner.fault = "TimedOut"
    /\ (w_last.op = "write" /\ ~w_last.ret.ok) =>
          /\ DOMAIN w_last.ret = {"ok", "err"}
          /\ w_last.ret.err \in {"WriteZero", "TimedOut"}
          /\ w_last.ret.err = "TimedOut" => w_last.before.inner.fault = "TimedOut"
    /\ (pc = "read" /\ DidRead) =>
          /\ reader[1].inner.pos = r_last.before.inner.pos + size_of(r_last.kind)
          /\ r_last.kind \in IntKinds =>
                Encoding(r_last.kind, r_last.before.order, r_last.ret.val) = FrontRun

\* a read_u32 took one byte, then the source reported TimedOut: the call
\* returned that error and the source stands one byte further
C19_Witness ==
    /\ ReadMetError /\ r_last.kind = "u32"
    /\ r_last.before.inner.fault = "TimedOut" /\ r_last.before.inner.after = 1
    /\ r_last.ret = Err("TimedOut")
    /\ reader[1].inner.pos = r_last.before.inner.pos + 1

\* bytes the sink still takes (a sink that is not limited takes any run)
Takes(snk, n) == ~snk.limited \/ snk.room >= n

\* C20: a failed typed read or write left the wrapper with its order and
\* with its source or sink, which is as the failed read_exact / write_all
\* left it (same bytes, advanced by what that call consumed or emitted); a
\* typed read on a reader whose source has the bytes, or a typed write on a
\* writer whose sink takes the run, succeeds when no error other than
\* Interrupted is due, also after earlier calls have failed; and a call that
\* succeeds after a failed one gives the result of the layout rule for the
\* bytes it consumed or emitted.
C20_UsableAfterError ==
    /\ (pc = "read" /\ r_last.op = "read" /\ ~r_last.ret.ok) =>
          /\ reader[1].order = r_last.before.order
          /\ reader[1].inner = read_exact(r_last.before.inner, size_of(r_last.kind)).inner
          /\ reader[1].inner.data = r_last.before.inner.data
          /\ reader[1].inner.pos >= r_last.before.inner.pos
    /\ (pc = "write" /\ w_last.op = "write" /\ ~w_last.ret.ok) =>
          /\ writer[1].order = w_last.before.order
          /\ Len(writer[1].inner.data) >= Len(w_last.before.inner.data)
          /\ SubSeq(writer[1].inner.data, 1, Len(w_last.before.inner.data))
                = w_last.before.inner.data
    /\ (r_last.op = "read" /\ LeftBefore >= size_of(r_last.kind)
          /\ r_last.before.inner.fault \in {"none", "Interrupted"}) => r_last.ret.ok
    /\ (w_last.op = "write" /\ Takes(w_last.before.inner, size_of(w_last.kind))
          /\ w_last.before.inner.fault \in {"none", "Interrupted"}) => w_last.ret.ok
    /\ (pc = "read" /\ r_errs >= 1 /\ DidRead) =>
          /\ reader[1].order = MadeOrder(r_made)
          /\ r_last.kind \in IntKinds =>
                Encoding(r_last.kind, MadeOrder(r_made), r_last.ret.val) = FrontRun
          /\ r_last.kind \in FloatKinds =>
                Encoding(r_last.kind, MadeOrder(r_made), r_last.ret.val) = FrontRun
    /\ (w_errs >= 1 /\ Wrote) =>
          /\ writer[1].order = MadeOrder(w_made)
          /\ Appended = Encoding(w_last.kind, MadeOrder(w_made), w_last.arg)

\* a read_u16 failed after taking the byte 12 of 12 34 56 78; the next
\* read_u16 on the same BE reader returned 0x3456
C20_Witness ==
    /\ byte_bits = 8 /\ pc = "read"
    /\ r_calls = 2 /\ r_errs = 1 /\ r_sum = 2
    /\ DidRead /\ r_last.kind = "u16"
    /\ r_last.before.order = "BE" /\ r_last.before.inner.pos = 1
    /\ r_last.ret.val = 13398

\* the last typed read failed because fewer bytes were left than its width
ReadFellShort ==
    /\ pc = "read" /\ r_last.op = "read"
    /\ LeftBefore < size_of(r_last.kind)
    /\ ~r_last.ret.ok /\ r_last.ret.err = "UnexpectedEof"

\* C21 as first stated: after a read that failed for want of bytes, the
\* bytes that were left are consumed (the source stands at its end, not
\* where the read started), so no following read sees them.
C21_PartialStaysConsumed ==
    ReadFellShort => reader[1].inner.pos = Len(reader[1].inner.data)

\* C21, amended: the reader restores nothing and consumes nothing itself:
\* after a read that failed for want of bytes the source is as its own
\* read_exact left it and never behind where the read started.  Under the
\* default read_exact, and under a Cursor that goes to the end on failure,
\* the bytes that were left are consumed and a following read finds none;
\* under a Cursor that fails in place they are still there.
C21_NoRollback ==
    /\ ReadFellShort =>
          LET src == r_last.before.inner
          IN  /\ reader[1].inner.data = src.data
              /\ reader[1].inner.pos >= src.pos
              /\ src.exact \in {"default", "to_end"} =>
                    reader[1].inner.pos = Len(src.data)
              /\ src.exact = "in_place" => reader[1].inner.pos = src.pos
    /\ (r_last.op = "read" /\ LeftBefore = 0) => ~r_last.ret.ok

\* a read left one byte short consumed that byte, and the read_u8 that
\* followed on the same reader did not get it
C21_Witness ==
    /\ pc = "read" /\ r_calls = 2 /\ r_errs = 2 /\ r_sum = 0 /\ r_raw = 0
    /\ r_last.op = "read" /\ r_last.kind = "u8"
    /\ r_last.before.inner.exact = "default"
    /\ r_last.before.inner.fault = "none"
    /\ r_last.before.inner.pos = 1 /\ Len(r_last.before.inner.data) = 1
    /\ r_last.ret = Err("UnexpectedEof")

(* ------------------------- decode, then encode -------------------------- *)

\* the caller hands the value the last read returned to the write method of
\* the same kind, on a writer of the reader's order over an empty Vec
\* (NumberWriter::with_order(order, vec![]).write_<kind>(value))
Recode ==
    /\ pc = "read" /\ DidRead
    /\ LET k == r_last.kind
           o == reader[1].order
           fresh == NumberWriter_with_order(o, Sink(FALSE, 0, 0))
           out == CallWrite(k, fresh, r_last.ret.val)
       IN  /\ writer' = <<out.self>>
           /\ w_made' = [by |-> "with_order", order |-> o]
           /\ w_last' = [op |-> "write", kind |-> k, arg |-> r_last.ret.val,
                         before |-> fresh, ret |-> out.ret]
           /\ w_sent' = IF out.ret.ok THEN Encoding(k, o, r_last.ret.val) ELSE <<>>
           /\ w_errs' = IF out.ret.ok THEN 0 ELSE 1
    /\ w_calls' = 1
    /\ pc' = "recoded"
    /\ UNCHANGED <<env, returned, w_raw, rvars>>

\* Recoding runs: one value read from a sample source, then written again.
NextRecode ==
    \/ r_calls = 0 /\ ReadU8
    \/ r_calls = 0 /\ ReadI8
    \/ r_calls = 0 /\ ReadU16
    \/ r_calls = 0 /\ ReadI16
    \/ r_calls = 0 /\ ReadU32
    \/ r_calls = 0 /\ ReadI32
    \/ r_calls = 0 /\ ReadU64
    \/ r_calls = 0 /\ ReadI64
    \/ r_calls = 0 /\ ReadU128
    \/ r_calls = 0 /\ ReadI128
    \/ r_calls = 0 /\ ReadF32
    \/ r_calls = 0 /\ ReadF64
    \/ Recode

\* runs to decode: the sample sources, and for each kind the runs of the
\* sample bit patterns (zero, one, an asymmetric one, 0x7F.., 0x80.., 0xFF..)
RecodeData ==
    SampleData \cup UNION {{be_digits(p, size_of(k)) : p \in Patterns(k)} : k \in Kinds}

InitRecode ==
    /\ target \in {"big", "little"}
    /\ byte_bits \in ByteWidths
    /\ pc = "read"
    /\ \E d \in RecodeData, c \in {0, 1}, o \in ByteOrder :
          /\ reader = <<NumberReader_with_order(o, Source(d, c))>>
          /\ r_made = [by |-> "with_order", order |-> o]
    /\ writer = <<>> /\ w_made = NotMade
    /\ returned = <<>>
    /\ w_last = NoCall /\ r_last = NoCall
    /\ w_calls = 0 /\ r_calls = 0
    /\ w_sent = <<>> /\ w_errs = 0 /\ w_raw = 0
    /\ r_sum = 0 /\ r_errs = 0 /\ r_raw = 0

SpecRecode == InitRecode /\ [][NextRecode]_vars

\* the values of an integer kind
InRange(k, v) ==
    IF k \in UnsignedKinds THEN v >= 0 /\ v < Modulus(k)
    ELSE 2 * v >= -Modulus(k) /\ 2 * v < Modulus(k)

\* C22: for an integer kind, writing the value a read returned, with the
\* write of the same kind under the same order, succeeds and emits exactly
\* the width/8 bytes the read consumed; the value read is a value of the
\* kind, so that with the round trip of C1 values and runs correspond one to
\* one.
C22_DecodeEncode ==
    (pc = "recoded" /\ r_last.kind \in IntKinds) =>
        /\ w_last.ret.ok
        /\ writer[1].order = r_last.before.order
        /\ Len(writer[1].inner.data) = size_of(r_last.kind)
        /\ writer[1].inner.data = FrontRun
        /\ InRange(r_last.kind, r_last.ret.val)

\* an LE reader decoded four bytes, not their own mirror image, to a negative
\* i32 other than -1, and write_i32 of that value emitted the same four bytes
C22_Witness ==
    /\ pc = "recoded" /\ r_last.kind = "i32"
    /\ r_last.before.order = "LE"
    /\ r_last.ret.val < -1
    /\ FrontRun # Reverse(FrontRun)
    /\ writer[1].inner.data = FrontRun

\* the same wrapper over the same source or sink, which hands over or
\* accepts any number of bytes in one call
Unchunked(self) == [self EXCEPT !.inner.chunk = 0]

\* C23: a typed read whose source has the width/8 bytes succeeds however few
\* bytes the source hands over per read call (at least one), with the value
\* and the position it has when the run arrives in one call; a typed write
\* whose sink has room for the run succeeds however few bytes the sink
\* accepts per write call, and the sink holds what it holds when the run is
\* accepted in one call: the width/8 bytes of the value, in order.
C23_Chunking ==
    /\ (pc = "read" /\ r_last.op = "read" /\ LeftBefore >= size_of(r_last.kind)) =>
          LET whole == CallRead(r_last.kind, Unchunked(r_last.before))
          IN  /\ r_last.ret.ok
              /\ r_last.ret = whole.ret
              /\ reader[1].inner.pos = whole.self.inner.pos
              /\ reader[1].inner.pos = r_last.before.inner.pos + size_of(r_last.kind)
    /\ (pc = "write" /\ w_last.op = "write"
          /\ Takes(w_last.before.inner, size_of(w_last.kind))) =>
          LET whole == CallWrite(w_last.kind, Unchunked(w_last.before), w_last.arg)
          IN  /\ w_last.ret.ok
              /\ writer[1].inner.data = whole.self.inner.data
              /\ Appended = Encoding(w_last.kind, w_last.before.order, w_last.arg)

\* a read_u128 got its sixteen bytes three at a time
C23_Witness ==
    /\ pc = "read" /\ DidRead /\ r_last.kind = "u128"
    /\ r_last.before.inner.chunk = 3
    /\ FrontRun # Reverse(FrontRun)
    /\ r_last.ret.val = (IF r_last.before.order = "LE" THEN from_le_bytes(FrontRun)
                          ELSE from_be_bytes(FrontRun))

====
